---- MODULE Spec2Model ----
(***************************************************************************)
(* Nabu voice loop (src/audio/voice_loop.py): the capture thread with its  *)
(* voice-activity segmenter, start_recording / stop_recording, and the     *)
(* per-utterance worker threads, with the event bus's history              *)
(* (src/core/event_bus.py).                                                *)
(*                                                                         *)
(* Time is counted in milliseconds.  stream.read() blocks for one chunk    *)
(* (chunk_size / sample_rate seconds), so a capture thread's time.time()   *)
(* is its number of completed reads times ChunkMs, measured from the       *)
(* moment its stream was opened; the code only ever uses differences of    *)
(* time.time() values taken inside one capture thread.                     *)
(*                                                                         *)
(* A frame is named by the index of the read that produced it (1, 2, ...   *)
(* per capture thread).  The verdict of _has_speech_content on a window is *)
(* an input of the read step.                                              *)
(*                                                                         *)
(* Specifications: Spec (several capture threads, few frames), SpecCalls   *)
(* (the start / stop calls alone), SpecSession (one capture thread, a      *)
(* whole session of frames), SpecWorkers (one session with the workers up  *)
(* to the speech synthesis), SpecPlayback (one session with the workers up *)
(* to the playback), SpecCleanup (the whole chain of a worker, with the    *)
(* deletion of its temporary file), SpecClassifier (_has_speech_content    *)
(* on windows of samples).                                                 *)
(***************************************************************************)
EXTENDS Naturals, Integers, Sequences, FiniteSets

\* ------------------------------------------------------------- bounds
\* Spec: capture threads that may be started, frames they may read in all.
MaxThreads == 2
MaxReads == 4
\* SpecCalls: frames the capture threads may read in all.
CallReads == 2
\* SpecSession: frames the one capture thread may read.
SessionReads == 36
\* SpecWorkers: frames the one capture thread may read.
WorkerReads == 32
\* SpecPlayback: frames the one capture thread may read.
PlaybackReads == 32
\* SpecCleanup: frames the one capture thread may read.
CleanupReads == 8
\* SpecClassifier: the windows given to the classifier have up to
\* MaxWindowLen samples, of magnitude 0, AmpStep, ..., MaxAmp * AmpStep.
MaxWindowLen == 10
AmpStep == 50
MaxAmp == 6
\* SpecDevice: devices of a host, and input channels of a device.
MaxDevices == 3
MaxInputChannels == 2
\* SpecBus: callbacks subscribed to one event type, and events published.
MaxSubscriptions == 2
MaxPublishes == 2

\* ---------------------------------------------------- program constants
sample_rate == 16000
chunk_size == 1024
SilenceThresholdMs == 1200
MinSpeechMs == 400
ClassifyEvery == 4
max_history == 1000
\* AudioConfig as VoiceLoop.__init__ fills it: rms_threshold, zcr_threshold
\* (zero-crossing rates are counted in hundredths)
config_rms_threshold == 60
config_zcr_threshold == 3
\* the thresholds written in _has_speech_content
rms_threshold == 40
zcr_threshold == 3
loud_rms == 70
medium_rms == 45
medium_zcr == 12
low_rms == 30
low_zcr == 18

\* One chunk of audio in milliseconds: chunk_size / sample_rate seconds.
ChunkMs == (chunk_size * 1000) \div sample_rate
\* The audio covered by one classification window.
WindowMs == ClassifyEvery * ChunkMs

Threads == 1..MaxThreads

VARIABLES
  recording,         \* self.recording
  event_history,     \* EventBus.event_history: <<[type, data]>>
  nthreads,          \* capture threads spawned so far
  pc,                \* pc[t]: where capture thread t stands
  stream,            \* stream[t]: "none" | "open" | "closed"
  frames,            \* frames[t]: the local list `frames`
  nread,             \* nread[t]: completed stream.read calls of thread t
  last_speech_time,  \* last_speech_time[t], in ms since the stream opened
  speech_started,    \* speech_started[t]
  workers,           \* the _process_audio threads started so far, in start order
  music,             \* pygame.mixer.music: the worker whose file is loaded
                     \* (0: none) and whether it is being played
  window,            \* the samples _has_speech_content was last called on
  verdict,           \* what it returned
  called,            \* whether it has been called at all
  host,              \* the audio host the device selection last ran on
  input_device,      \* the input_device it chose (0: None)
  opened,            \* whether self.audio.open then returned a stream
  subscribers,       \* EventBus.subscribers: the callbacks of each event type
  delivery,          \* the publish call in progress: its stage, the event
                     \* type, its local callbacks, how many it has called, the
                     \* first call that raised (0: none), and whether an
                     \* exception left publish
  \* history variables (not program state)
  hist,              \* hist[t]: verdicts since the buffer `frames` was last empty
  onset,             \* onset[t]: first frame of the window that set speech_started
  heard,             \* heard[t]: some verdict of thread t was speech
  ended,             \* ended[t]: why thread t left its loop
  active,            \* a start_recording returned True and no stop_recording did since
  atStop,            \* atStop[t]: the buffer of thread t if it was SPEAKING in
                     \* its loop when stop_recording last succeeded
  lastCall           \* the last start_recording / stop_recording call and its result

deviceVars == <<host, input_device, opened>>
busVars == <<subscribers, delivery>>

vars == <<recording, event_history, nthreads, pc, stream, frames, nread,
          last_speech_time, speech_started, workers, hist, onset, heard,
          ended, active, atStop, lastCall, music,
          window, verdict, called, deviceVars, busVars>>

captureVars == <<pc, stream, frames, nread, last_speech_time, speech_started,
                 hist, onset, heard, ended>>

\* ------------------------------------------------------------ helpers
RECURSIVE SumTo(_, _)
SumTo(f, n) == IF n = 0 THEN 0 ELSE f[n] + SumTo(f, n - 1)
TotalReads == SumTo(nread, MaxThreads)

\* time.time() as seen by capture thread t after n completed reads.
TimeAfter(n) == n * ChunkMs

\* EventBus.publish: append to the history, drop the oldest beyond max_history.
publish(h, type, data) ==
  LET h2 == Append(h, [type |-> type, data |-> data])
  IN IF Len(h2) > max_history THEN Tail(h2) ELSE h2

\* frames.append(data) as the workers see it: the frame also shows in every
\* list that is still the capture thread's buffer.
AppendAliased(ws, t, n) ==
  [i \in 1..Len(ws) |->
     IF ws[i].by = t /\ ws[i].alias
     THEN [ws[i] EXCEPT !.frames = Append(@, n)]
     ELSE ws[i]]

\* Mutant: a buffer that keeps the last two windows only.
frames_append_dropping(fr, n) ==
  IF Len(fr) >= 2 * ClassifyEvery THEN Append(Tail(fr), n) ELSE Append(fr, n)
\* frames.append(data)
frames_append(fr, n) == Append(fr, n)

\* Mutant: frames.clear() instead of frames = [] empties the list the worker
\* was given.
HandedAfterDispatchCleared(fr) == <<>>
\* What the list given to the worker holds after `frames = []`: rebinding the
\* name leaves the list alone.
HandedAfterDispatch(fr) == fr

\* Mutant: the capture thread runs _process_audio itself (or joins the worker).
SpawnWorkerJoined(t, fr, how) ==
  [by |-> t, frames |-> fr, stage |-> "transcribe", joined |-> TRUE,
   failed |-> "no", tmp |-> "none", cleanup |-> "none", audio |-> "none",
   via |-> how, hist |-> hist[t], onset |-> onset[t],
   handed |-> fr, alias |-> TRUE, at |-> nread[t]]

\* threading.Thread(target=self._process_audio, args=(frames,)).start():
\* the worker gets the list; the caller does not join it.  stage is where
\* the worker (and the _get_ai_response thread it starts) stands; failed, the
\* step that raised; tmp, the temporary .mp3 file of its reply; cleanup, the
\* thread that deletes that file; audio, what the mixer has done with that
\* file ("none", "loaded", "playing", "stopped", "ended").  The list is passed
\* by reference: frames is what the list holds now, handed what it held when
\* it was passed, alias whether the capture thread's `frames` is still this
\* very list, at how many frames the thread had read when it started the
\* worker.
SpawnWorker(t, fr, how) ==
  [by |-> t, frames |-> fr, stage |-> "transcribe", joined |-> FALSE,
   failed |-> "no", tmp |-> "none", cleanup |-> "none", audio |-> "none",
   via |-> how, hist |-> hist[t], onset |-> onset[t],
   handed |-> fr, alias |-> TRUE, at |-> nread[t]]

\* Whether capture thread t is waiting for a worker it started to return.
AwaitsWorker(t) ==
  \E i \in 1..Len(workers) :
    workers[i].by = t /\ workers[i].joined /\ workers[i].stage # "done"

\* silence_duration = time.time() - last_speech_time
silence_duration(now, last) == now - last
\* Mutant: the length of the buffer is left out of the speech duration.
speech_duration_no_buffer(now, last, nframes) == last - now
\* speech_duration = last_speech_time - (time.time() - len(frames) * chunk_size / sample_rate)
speech_duration(now, last, nframes) == last - (now - nframes * ChunkMs)
\* Mutant: the emission forgets the silence gate.
GatesPassNoSilenceGate(sil, sp) == sp >= MinSpeechMs
\* the condition of the emission
GatesPass(sil, sp) == sil >= SilenceThresholdMs /\ sp >= MinSpeechMs
\* Mutant: the flush forgets to test speech_started.
FlushConditionAnyFrames(fr, started) == fr # <<>>
\* the condition of the flush after the loop: `if frames and speech_started`
FlushCondition(fr, started) == fr # <<>> /\ started

\* Mutant: the buffer is kept after an emission.
BufferAfterDispatchKept(fr) == fr
\* `frames = []` after the worker of an emission was started
BufferAfterDispatch(fr) == <<>>

\* ---------------------------------------------------- device selection
\* An audio host: channels[i] is maxInputChannels of device i, in enumeration
\* order; default is the index get_default_input_device_info returns, 0 when
\* it raises.  The default input device, when there is one, has an input
\* channel.  NoHost stands for "the selection has not run yet".
NoHost == [default |-> -1, channels |-> <<>>]
Hosts ==
  {h \in [default : 0..MaxDevices,
          channels : UNION {[1..n -> 0..MaxInputChannels] : n \in 0..MaxDevices}] :
     h.default = 0 \/ (h.default <= Len(h.channels) /\ h.channels[h.default] > 0)}
InputDevices(h) == {i \in 1..Len(h.channels) : h.channels[i] > 0}
\* Mutant: the fallback takes the last device with an input channel.
FallbackDeviceLast(h) ==
  IF InputDevices(h) = {} THEN 0
  ELSE CHOOSE i \in InputDevices(h) : \A j \in InputDevices(h) : j <= i
\* The for / else over range(get_device_count()): the first device with
\* maxInputChannels > 0, or None.
FallbackDevice(h) ==
  IF InputDevices(h) = {} THEN 0
  ELSE CHOOSE i \in InputDevices(h) : \A j \in InputDevices(h) : i <= j
\* input_device after the try / except of the device selection.
SelectDevice(h) == IF h.default # 0 THEN h.default ELSE FallbackDevice(h)
\* What self.audio.open(input_device_index = dev) can do: a device with an
\* input channel opens or raises (busy, unplugged); with None the host's
\* default input device is opened, and a host without any input device
\* raises.
OpenOutcomes(h, dev) ==
  IF dev = 0
  THEN (IF InputDevices(h) = {} THEN {FALSE} ELSE BOOLEAN)
  ELSE (IF h.channels[dev] > 0 THEN BOOLEAN ELSE {FALSE})

\* The event types and the callbacks of the bus that the model follows.
BusTypes == {"audio_error", "tts_completed"}
Callbacks == {"_on_audio_error", "_on_tts_completed"}
NoDelivery ==
  [stage |-> "idle", type |-> "audio_error", callbacks |-> <<>>,
   ncalled |-> 0, raisedAt |-> 0, propagated |-> FALSE]

\* The value of atStop[t] when thread t was not SPEAKING with buffered frames.
NotSpeaking == [speaking |-> FALSE, frames |-> <<>>, nworkers |-> 0]

\* --------------------------------------------------------------- Init
Init ==
  /\ recording = FALSE
  /\ event_history = <<>>
  /\ nthreads = 0
  /\ pc = [t \in Threads |-> "unborn"]
  /\ stream = [t \in Threads |-> "none"]
  /\ frames = [t \in Threads |-> <<>>]
  /\ nread = [t \in Threads |-> 0]
  /\ last_speech_time = [t \in Threads |-> 0]
  /\ speech_started = [t \in Threads |-> FALSE]
  /\ workers = <<>>
  /\ hist = [t \in Threads |-> <<>>]
  /\ onset = [t \in Threads |-> 0]
  /\ heard = [t \in Threads |-> FALSE]
  /\ ended = [t \in Threads |-> "no"]
  /\ active = FALSE
  /\ atStop = [t \in Threads |-> NotSpeaking]
  /\ music = [loaded |-> 0, playing |-> FALSE]
  /\ window = <<>>
  /\ verdict = FALSE
  /\ called = FALSE
  /\ host = NoHost
  /\ input_device = 0
  /\ opened = FALSE
  /\ subscribers = [ty \in BusTypes |-> <<>>]
  /\ delivery = NoDelivery
  /\ lastCall = [op |-> "none", ok |-> FALSE]

\* ------------------------------------------------- start / stop calls
\* EventBus.publish catches what its callbacks raise, so the except branches
\* of start_recording and stop_recording are entered only if the thread
\* cannot be created; that failure is not followed here.
\* Mutant: start_recording without its `if self.recording` guard.
start_recording_unguarded(maxThreads) ==
  /\ nthreads < maxThreads
  /\ recording' = TRUE
  /\ event_history' = publish(event_history, "audio_started", "none")
  /\ nthreads' = nthreads + 1
  /\ pc' = [pc EXCEPT ![nthreads + 1] = "open"]
  /\ active' = TRUE
  /\ lastCall' = [op |-> "start", ok |-> TRUE]
  /\ UNCHANGED <<stream, frames, nread, last_speech_time, speech_started,
                 workers, hist, onset, heard, ended, atStop, music,
                 window, verdict, called, deviceVars, busVars>>

\* maxThreads bounds the capture threads the model starts.
start_recording(maxThreads) ==
  IF recording
  THEN /\ lastCall' = [op |-> "start", ok |-> FALSE]
       /\ UNCHANGED <<recording, event_history, nthreads, workers, active,
                      atStop, music,
                      window, verdict, called, deviceVars, busVars>>
       /\ UNCHANGED captureVars
  ELSE /\ nthreads < maxThreads
       /\ recording' = TRUE
       /\ event_history' = publish(event_history, "audio_started", "none")
       /\ nthreads' = nthreads + 1
       /\ pc' = [pc EXCEPT ![nthreads + 1] = "open"]
       /\ active' = TRUE
       /\ lastCall' = [op |-> "start", ok |-> TRUE]
       /\ UNCHANGED <<stream, frames, nread, last_speech_time, speech_started,
                      workers, hist, onset, heard, ended, atStop, music,
                      window, verdict, called, deviceVars, busVars>>

\* Mutant: stop_recording without its `if not self.recording` guard.
stop_recording_unguarded ==
  /\ recording' = FALSE
  /\ event_history' = publish(event_history, "audio_stopped", "none")
  /\ active' = FALSE
  /\ lastCall' = [op |-> "stop", ok |-> TRUE]
  /\ UNCHANGED <<nthreads, workers, atStop, music,
                 window, verdict, called, deviceVars, busVars>>
  /\ UNCHANGED captureVars

stop_recording ==
  IF ~recording
  THEN /\ lastCall' = [op |-> "stop", ok |-> FALSE]
       /\ UNCHANGED <<recording, event_history, nthreads, workers, active,
                      atStop, music,
                      window, verdict, called, deviceVars, busVars>>
       /\ UNCHANGED captureVars
  ELSE /\ recording' = FALSE
       /\ event_history' = publish(event_history, "audio_stopped", "none")
       /\ active' = FALSE
       /\ atStop' = [t \in Threads |->
                       IF pc[t] \notin {"loop", "read"} THEN atStop[t]
                       ELSE IF speech_started[t] /\ frames[t] # <<>>
                       THEN [speaking |-> TRUE, frames |-> frames[t],
                             nworkers |-> Len(workers)]
                       ELSE NotSpeaking]
       /\ lastCall' = [op |-> "stop", ok |-> TRUE]
       /\ UNCHANGED <<nthreads, workers, music,
                      window, verdict, called, deviceVars, busVars>>
       /\ UNCHANGED captureVars

\* ------------------------------------------- _continuous_record_audio
\* Device selection and self.audio.open(...): it opens the stream, or raises
\* into the outer except, which publishes AUDIO_ERROR and ends the thread.
record_open(t) ==
  /\ pc[t] = "open"
  /\ \/ /\ stream' = [stream EXCEPT ![t] = "open"]
        /\ pc' = [pc EXCEPT ![t] = "loop"]
        /\ frames' = [frames EXCEPT ![t] = <<>>]
        /\ last_speech_time' = [last_speech_time EXCEPT ![t] = TimeAfter(nread[t])]
        /\ speech_started' = [speech_started EXCEPT ![t] = FALSE]
        /\ UNCHANGED <<event_history, ended>>
     \/ /\ event_history' = publish(event_history, "audio_error", <<"capture", t>>)
        /\ pc' = [pc EXCEPT ![t] = "done"]
        /\ ended' = [ended EXCEPT ![t] = "open_error"]
        /\ UNCHANGED <<stream, frames, last_speech_time, speech_started>>
  /\ UNCHANGED <<recording, nthreads, nread, workers, hist, onset, heard,
                 active, atStop, lastCall, music,
                 window, verdict, called, deviceVars, busVars>>

\* `while self.recording:`
record_loop(t) ==
  /\ pc[t] = "loop"
  /\ ~AwaitsWorker(t)
  /\ IF recording
     THEN /\ pc' = [pc EXCEPT ![t] = "read"]
          /\ UNCHANGED ended
     ELSE /\ pc' = [pc EXCEPT ![t] = "flush"]
          /\ ended' = [ended EXCEPT ![t] = "stopped"]
  /\ UNCHANGED <<recording, event_history, nthreads, stream, frames, nread,
                 last_speech_time, speech_started, workers, hist, onset, heard,
                 active, atStop, lastCall, music,
                 window, verdict, called, deviceVars, busVars>>

\* stream.read raised: the inner except logs and breaks out of the loop.
record_read_error(t) ==
  /\ pc[t] = "read"
  /\ pc' = [pc EXCEPT ![t] = "flush"]
  /\ ended' = [ended EXCEPT ![t] = "read_error"]
  /\ UNCHANGED <<recording, event_history, nthreads, stream, frames, nread,
                 last_speech_time, speech_started, workers, hist, onset, heard,
                 active, atStop, lastCall, music,
                 window, verdict, called, deviceVars, busVars>>

\* One pass of the loop body: a frame is read and appended; every
\* ClassifyEvery frames the last window is classified (verdict has_speech).
\* maxReads bounds the frames the model reads.
record_read(t, maxReads) ==
  /\ pc[t] = "read"
  /\ ~AwaitsWorker(t)
  /\ TotalReads < maxReads
  /\ \E has_speech \in BOOLEAN :
       LET n   == nread[t] + 1
           now == TimeAfter(n)
           fr  == frames_append(frames[t], n)
           ws  == AppendAliased(workers, t, n)
           sil == silence_duration(now, last_speech_time[t])
           sp  == speech_duration(now, last_speech_time[t], Len(fr))
       IN
       /\ nread' = [nread EXCEPT ![t] = n]
       /\ pc' = [pc EXCEPT ![t] = "loop"]
       /\ IF Len(fr) % ClassifyEvery # 0
          THEN /\ frames' = [frames EXCEPT ![t] = fr]
               /\ workers' = ws
               /\ UNCHANGED <<last_speech_time, speech_started,
                              hist, onset, heard>>
          ELSE IF has_speech
          THEN /\ frames' = [frames EXCEPT ![t] = fr]
               /\ speech_started' = [speech_started EXCEPT ![t] = TRUE]
               /\ last_speech_time' = [last_speech_time EXCEPT ![t] = now]
               /\ hist' = [hist EXCEPT ![t] = Append(@, TRUE)]
               /\ onset' = [onset EXCEPT ![t] =
                              IF speech_started[t] THEN @
                              ELSE fr[Len(fr) - ClassifyEvery + 1]]
               /\ heard' = [heard EXCEPT ![t] = TRUE]
               /\ workers' = ws
          ELSE IF speech_started[t] /\ GatesPass(sil, sp)
          THEN /\ workers' = Append(ws,
                     [SpawnWorker(t, fr, "gate") EXCEPT
                        !.hist = Append(@, FALSE),
                        !.at = n,
                        !.frames = HandedAfterDispatch(fr),
                        !.alias = (BufferAfterDispatch(fr) = fr)])
               /\ frames' = [frames EXCEPT ![t] = BufferAfterDispatch(fr)]
               /\ speech_started' = [speech_started EXCEPT ![t] = FALSE]
               /\ last_speech_time' = [last_speech_time EXCEPT ![t] = now]
               /\ hist' = [hist EXCEPT ![t] = <<>>]
               /\ onset' = [onset EXCEPT ![t] = 0]
               /\ UNCHANGED heard
          ELSE /\ frames' = [frames EXCEPT ![t] = fr]
               /\ hist' = [hist EXCEPT ![t] = Append(@, FALSE)]
               /\ workers' = ws
               /\ UNCHANGED <<last_speech_time, speech_started,
                              onset, heard>>
  /\ UNCHANGED <<recording, event_history, nthreads, stream, ended,
                 active, atStop, lastCall, music,
                 window, verdict, called, deviceVars, busVars>>

\* Mutant: the thread closes its stream without flushing the buffer.
record_flush_discard(t) ==
  /\ pc[t] = "flush"
  /\ pc' = [pc EXCEPT ![t] = "close"]
  /\ UNCHANGED <<recording, event_history, nthreads, stream, frames, nread,
                 last_speech_time, speech_started, workers, hist, onset, heard,
                 ended, active, atStop, lastCall, music,
                 window, verdict, called, deviceVars, busVars>>

\* After the loop: `if frames and speech_started:` start a worker on the rest.
record_flush(t) ==
  /\ pc[t] = "flush"
  /\ workers' = IF FlushCondition(frames[t], speech_started[t])
                THEN Append(workers, SpawnWorker(t, frames[t], "flush"))
                ELSE workers
  /\ pc' = [pc EXCEPT ![t] = "close"]
  /\ UNCHANGED <<recording, event_history, nthreads, stream, frames, nread,
                 last_speech_time, speech_started, hist, onset, heard, ended,
                 active, atStop, lastCall, music,
                 window, verdict, called, deviceVars, busVars>>

\* stream.stop_stream(); stream.close(): they return, or one of them raises
\* into the outer except (AUDIO_ERROR is published, the stream is not closed).
record_close(t) ==
  /\ pc[t] = "close"
  /\ ~AwaitsWorker(t)
  /\ pc' = [pc EXCEPT ![t] = "done"]
  /\ \/ /\ stream' = [stream EXCEPT ![t] = "closed"]
        /\ UNCHANGED event_history
     \/ /\ event_history' = publish(event_history, "audio_error", <<"capture", t>>)
        /\ UNCHANGED stream
  /\ UNCHANGED <<recording, nthreads, frames, nread, last_speech_time,
                 speech_started, workers, hist, onset, heard, ended,
                 active, atStop, lastCall, music,
                 window, verdict, called, deviceVars, busVars>>

\* ------------------------------------------------- _has_speech_content
\* A value of numpy's int16: x wrapped into -32768..32767.
Wrap16(x) == ((x + 32768) % 65536) - 32768
\* np.sum of audio_data**2: the squares are int16 and wrap, the sum is taken
\* in float64 and does not.
RECURSIVE SumSq16(_)
SumSq16(w) ==
  IF w = <<>> THEN 0 ELSE Wrap16(Head(w) * Head(w)) + SumSq16(Tail(w))
\* rms > c for rms = np.sqrt(np.mean(audio_data**2)) and c >= 0: the mean
\* exceeds c * c; a negative mean gives nan, which exceeds nothing.
RmsAbove(w, c) == SumSq16(w) > c * c * Len(w)
sign(x) == IF x > 0 THEN 1 ELSE IF x < 0 THEN -1 ELSE 0
\* np.sum(np.diff(np.sign(audio_data)) != 0)
zero_crossings(w) ==
  Cardinality({k \in 1..(Len(w) - 1) : sign(w[k + 1]) # sign(w[k])})
\* zero_crossing_rate > pct / 100
ZcrAbove(w, pct) == zero_crossings(w) * 100 > pct * Len(w)
\* The three `if rms > ...` tiers after the first test.
OtherTierAccepts(w) ==
  \/ RmsAbove(w, loud_rms)
  \/ RmsAbove(w, medium_rms) /\ ZcrAbove(w, medium_zcr)
  \/ RmsAbove(w, low_rms) /\ ZcrAbove(w, low_zcr)
\* Mutant: the later tiers decide alone, the first test is forgotten.
has_speech_content_tiers_only(w) == OtherTierAccepts(w)
\* _has_speech_content on a window of samples.  On the empty window np.mean
\* and the division by len(audio_data) give nan with a warning, they do not
\* raise, and nan exceeds nothing: RmsAbove and ZcrAbove are false.  The
\* except branch is reached only when np.frombuffer rejects the bytes, which
\* no list of int16 frames does.
has_speech_content(w) ==
  LET has_speech == RmsAbove(w, rms_threshold) /\ ZcrAbove(w, zcr_threshold)
  IN IF OtherTierAccepts(w) THEN TRUE ELSE has_speech

\* A window of n samples of magnitude a whose sign changes at the first c
\* sample boundaries; n = 0 is the empty window.
MakeWindow(a, n, c) ==
  [k \in 1..n |-> IF (IF k - 1 < c THEN k - 1 ELSE c) % 2 = 0 THEN a ELSE -a]
Windows ==
  {MakeWindow(m * AmpStep, n, c) :
     <<m, n, c>> \in {x \in (0..MaxAmp) \X (0..MaxWindowLen) \X (0..MaxWindowLen) :
                       x[3] < x[2] \/ x[3] = 0}}

\* A call of _has_speech_content on some window.
classify_window ==
  /\ \E w \in Windows :
       /\ window' = w
       /\ verdict' = has_speech_content(w)
  /\ called' = TRUE
  /\ UNCHANGED <<recording, event_history, nthreads, workers, active, atStop,
                 lastCall, music, deviceVars, busVars>>
  /\ UNCHANGED captureVars

\* The head of _continuous_record_audio on some host: the device is chosen
\* and self.audio.open is called; when it raises, the outer except publishes
\* AUDIO_ERROR and no stream exists.
select_input_device ==
  /\ host = NoHost
  /\ \E h \in Hosts :
       /\ host' = h
       /\ input_device' = SelectDevice(h)
       /\ \E ok \in OpenOutcomes(h, SelectDevice(h)) :
            /\ opened' = ok
            /\ event_history' =
                 IF ok THEN event_history
                 ELSE publish(event_history, "audio_error", <<"capture", 0>>)
  /\ UNCHANGED <<recording, nthreads, workers, active, atStop, lastCall, music,
                 window, verdict, called, busVars>>
  /\ UNCHANGED captureVars

\* ------------------------------------------------------------ EventBus
\* list.remove(callback): the list without the first occurrence.
RECURSIVE RemoveFirst(_, _)
RemoveFirst(q, c) ==
  IF q = <<>> THEN <<>>
  ELSE IF Head(q) = c THEN Tail(q)
  ELSE <<Head(q)>> \o RemoveFirst(Tail(q), c)

\* subscribe, from any thread: the callback is appended to the type's list.
subscribe ==
  /\ \E ty \in BusTypes, c \in Callbacks :
       /\ Len(subscribers[ty]) < MaxSubscriptions
       /\ subscribers' = [subscribers EXCEPT ![ty] = Append(@, c)]
  /\ UNCHANGED <<delivery, event_history>>
  /\ UNCHANGED <<recording, nthreads, workers, active, atStop, lastCall, music,
                 window, verdict, called, deviceVars>>
  /\ UNCHANGED captureVars

\* unsubscribe, from any thread: the first occurrence is removed; a callback
\* that is not in the list leaves it as it is.
unsubscribe ==
  /\ \E ty \in BusTypes, c \in Callbacks :
       /\ subscribers[ty] # <<>>
       /\ subscribers' = [subscribers EXCEPT ![ty] = RemoveFirst(@, c)]
  /\ UNCHANGED <<delivery, event_history>>
  /\ UNCHANGED <<recording, nthreads, workers, active, atStop, lastCall, music,
                 window, verdict, called, deviceVars>>
  /\ UNCHANGED captureVars

\* publish, first critical section: the event is stored in the history.
bus_publish ==
  /\ delivery.stage \in {"idle", "done", "aborted"}
  /\ Len(event_history) < MaxPublishes
  /\ \E ty \in BusTypes :
       /\ event_history' = publish(event_history, ty, "none")
       /\ delivery' = [NoDelivery EXCEPT !.stage = "stored", !.type = ty]
  /\ UNCHANGED subscribers
  /\ UNCHANGED <<recording, nthreads, workers, active, atStop, lastCall, music,
                 window, verdict, called, deviceVars>>
  /\ UNCHANGED captureVars

\* publish, second critical section:
\* callbacks = self.subscribers[event_type].copy()
bus_snapshot ==
  /\ delivery.stage = "stored"
  /\ delivery' = [delivery EXCEPT !.stage = "calling",
                                  !.callbacks = subscribers[delivery.type]]
  /\ UNCHANGED <<subscribers, event_history>>
  /\ UNCHANGED <<recording, nthreads, workers, active, atStop, lastCall, music,
                 window, verdict, called, deviceVars>>
  /\ UNCHANGED captureVars

\* Mutant: the callback is called without the try / except.
AfterCallbackUncaught(raises) == IF raises THEN "aborted" ELSE "calling"
\* try: callback(data) except Exception: the error is logged and the loop
\* goes on.
AfterCallback(raises) == "calling"

\* One pass of `for callback in callbacks`: the callback returns or raises.
bus_call ==
  /\ delivery.stage = "calling"
  /\ delivery.ncalled < Len(delivery.callbacks)
  /\ \E raises \in BOOLEAN :
       delivery' = [delivery EXCEPT
                      !.ncalled = @ + 1,
                      !.raisedAt = IF raises /\ @ = 0
                                   THEN delivery.ncalled + 1 ELSE @,
                      !.stage = AfterCallback(raises),
                      !.propagated = (AfterCallback(raises) = "aborted")]
  /\ UNCHANGED <<subscribers, event_history>>
  /\ UNCHANGED <<recording, nthreads, workers, active, atStop, lastCall, music,
                 window, verdict, called, deviceVars>>
  /\ UNCHANGED captureVars

\* The loop is over and publish returns to its caller.
bus_return ==
  /\ delivery.stage = "calling"
  /\ delivery.ncalled = Len(delivery.callbacks)
  /\ delivery' = [delivery EXCEPT !.stage = "done"]
  /\ UNCHANGED <<subscribers, event_history>>
  /\ UNCHANGED <<recording, nthreads, workers, active, atStop, lastCall, music,
                 window, verdict, called, deviceVars>>
  /\ UNCHANGED captureVars

\* ------------------------------------------------------ _process_audio
\* What a step of a worker leaves alone.
workerFrame ==
  <<recording, nthreads, active, atStop, lastCall, window, verdict, called, deviceVars, busVars>>

\* Mutant: a failure inside _process_audio ends the worker without an event.
process_audio_unreported(i) ==
  /\ i \in 1..Len(workers)
  /\ workers[i].stage = "transcribe"
  /\ \/ /\ workers' = [workers EXCEPT ![i].stage = "done"]
        /\ UNCHANGED event_history
     \/ /\ workers' = [workers EXCEPT ![i].stage = "done", ![i].failed = "transcribe"]
        /\ UNCHANGED event_history
     \/ /\ workers' = [workers EXCEPT ![i].stage = "respond"]
        /\ event_history' = publish(event_history, "user_message", <<"worker", i>>)
  /\ UNCHANGED <<workerFrame, music>>
  /\ UNCHANGED captureVars

\* The worker thread of one utterance: the frames are written to a .wav file
\* and transcribed.  The text is empty or filtered out and the worker returns
\* quietly; or something raised, the outer except published AUDIO_ERROR; or
\* USER_MESSAGE is published and the _get_ai_response thread is started.
\* It runs on its own, whatever the capture threads do.
process_audio(i) ==
  /\ i \in 1..Len(workers)
  /\ workers[i].stage = "transcribe"
  /\ \/ /\ workers' = [workers EXCEPT ![i].stage = "done"]
        /\ UNCHANGED event_history
     \/ /\ workers' = [workers EXCEPT ![i].stage = "done", ![i].failed = "transcribe"]
        /\ event_history' = publish(event_history, "audio_error", <<"worker", i>>)
     \/ /\ workers' = [workers EXCEPT ![i].stage = "respond"]
        /\ event_history' = publish(event_history, "user_message", <<"worker", i>>)
  /\ UNCHANGED <<workerFrame, music>>
  /\ UNCHANGED captureVars

\* ---------------------------------------------------- _get_ai_response
\* The chat completion: AI_RESPONSE is published and _text_to_speech is
\* called, or something raised and the except published AI_ERROR.
get_ai_response(i) ==
  /\ i \in 1..Len(workers)
  /\ workers[i].stage = "respond"
  /\ \/ /\ workers' = [workers EXCEPT ![i].stage = "tts"]
        /\ event_history' = publish(event_history, "ai_response", <<"worker", i>>)
     \/ /\ workers' = [workers EXCEPT ![i].stage = "done", ![i].failed = "respond"]
        /\ event_history' = publish(event_history, "ai_error", <<"worker", i>>)
  /\ UNCHANGED <<workerFrame, music>>
  /\ UNCHANGED captureVars

\* ----------------------------------------------------- _text_to_speech
\* The request to the speech service: status 200, the reply is written to a
\* temporary file and _play_audio is called; or another status, or something
\* raised, and TTS_ERROR is published.
text_to_speech(i) ==
  /\ i \in 1..Len(workers)
  /\ workers[i].stage = "tts"
  /\ \/ /\ workers' = [workers EXCEPT ![i].stage = "load", ![i].tmp = "written"]
        /\ UNCHANGED event_history
     \/ /\ workers' = [workers EXCEPT ![i].stage = "done", ![i].failed = "tts"]
        /\ event_history' = publish(event_history, "tts_error", <<"worker", i>>)
  /\ UNCHANGED <<workerFrame, music>>
  /\ UNCHANGED captureVars

\* ---------------------------------------------------------- _play_audio
\* The file of worker j gets the status st; j = 0 is no file.
SetAudio(ws, j, st) == IF j = 0 THEN ws ELSE [ws EXCEPT ![j].audio = st]
\* Mutant: the mixer keeps playing what it played when another file is loaded.
DropLoadedKept(ws) == ws
\* pygame.mixer.music is one music stream: the music it had loaded is dropped,
\* and stopped if it was playing.
DropLoaded(ws) ==
  IF music.loaded # 0 /\ ws[music.loaded].audio \in {"loaded", "playing"}
  THEN SetAudio(ws, music.loaded, "stopped") ELSE ws

\* pygame.mixer.music.load(file_path): the file replaces the loaded music and
\* what was playing is stopped; or load raises, the except of _play_audio
\* logs it, and _text_to_speech goes on to publish TTS_COMPLETED.
play_audio_load(i) ==
  /\ i \in 1..Len(workers)
  /\ workers[i].stage = "load"
  /\ \/ /\ music' = [loaded |-> i, playing |-> FALSE]
        /\ workers' = [DropLoaded(workers) EXCEPT ![i].stage = "play",
                                                 ![i].audio = "loaded"]
        /\ UNCHANGED event_history
     \/ /\ workers' = [workers EXCEPT ![i].stage = "done", ![i].failed = "load"]
        /\ event_history' = publish(event_history, "tts_completed", <<"worker", i>>)
        /\ UNCHANGED music
  /\ UNCHANGED workerFrame
  /\ UNCHANGED captureVars

\* pygame.mixer.music.play(): the loaded music is (re)started, the cleanup
\* thread is started; or play raises (the music keeps playing or is halted)
\* and the except logs it.  Either way _text_to_speech then publishes
\* TTS_COMPLETED.
play_audio_play(i) ==
  /\ i \in 1..Len(workers)
  /\ workers[i].stage = "play"
  /\ \/ /\ music' = [music EXCEPT !.playing = TRUE]
        /\ workers' = [SetAudio(workers, music.loaded, "playing")
                         EXCEPT ![i].stage = "done", ![i].cleanup = "scheduled"]
     \/ /\ UNCHANGED music
        /\ workers' = [workers EXCEPT ![i].stage = "done", ![i].failed = "play"]
     \/ /\ music' = [music EXCEPT !.playing = FALSE]
        /\ workers' = [DropLoaded(workers)
                         EXCEPT ![i].stage = "done", ![i].failed = "play"]
  /\ event_history' = publish(event_history, "tts_completed", <<"worker", i>>)
  /\ UNCHANGED workerFrame
  /\ UNCHANGED captureVars

\* The cleanup thread, after its time.sleep(2): os.unlink(file_path) deletes
\* the file, or raises and the except passes.
cleanup(i) ==
  /\ i \in 1..Len(workers)
  /\ workers[i].cleanup = "scheduled"
  /\ \/ workers' = [workers EXCEPT ![i].cleanup = "done", ![i].tmp = "deleted"]
     \/ workers' = [workers EXCEPT ![i].cleanup = "done"]
  /\ UNCHANGED <<workerFrame, event_history, music>>
  /\ UNCHANGED captureVars

\* The loaded music has been played to its end.
music_ends ==
  /\ music.playing
  /\ music' = [music EXCEPT !.playing = FALSE]
  /\ workers' = SetAudio(workers, music.loaded, "ended")
  /\ UNCHANGED <<workerFrame, event_history>>
  /\ UNCHANGED captureVars

Next ==
  \/ start_recording(MaxThreads)
  \/ stop_recording
  \/ \E t \in Threads : record_open(t)
  \/ \E t \in Threads : record_loop(t)
  \/ \E t \in Threads : record_read(t, MaxReads)
  \/ \E t \in Threads : record_read_error(t)
  \/ \E t \in Threads : record_flush(t)
  \/ \E t \in Threads : record_close(t)
  \/ \E i \in 1..Len(workers) : process_audio(i)

Spec == Init /\ [][Next]_vars

\* The start_recording / stop_recording calls and the capture threads they
\* start and stop, over the first frames of each thread (no utterance yet).
CallsNext ==
  \/ start_recording(MaxThreads)
  \/ stop_recording
  \/ \E t \in Threads : record_open(t)
  \/ \E t \in Threads : record_loop(t)
  \/ \E t \in Threads : record_read(t, CallReads)
  \/ \E t \in Threads : record_read_error(t)
  \/ \E t \in Threads : record_flush(t)
  \/ \E t \in Threads : record_close(t)

SpecCalls == Init /\ [][CallsNext]_vars

\* One capture session: recording is started once, so there is one capture
\* thread, which may read SessionReads frames.
SessionNext ==
  \/ start_recording(1)
  \/ stop_recording
  \/ record_open(1)
  \/ record_loop(1)
  \/ record_read(1, SessionReads)
  \/ record_read_error(1)
  \/ record_flush(1)
  \/ record_close(1)
  \/ \E i \in 1..Len(workers) : process_audio(i)

SpecSession == Init /\ [][SessionNext]_vars

\* One capture session with the workers up to the speech synthesis.
WorkersNext ==
  \/ start_recording(1)
  \/ stop_recording
  \/ record_open(1)
  \/ record_loop(1)
  \/ record_read(1, WorkerReads)
  \/ record_read_error(1)
  \/ record_flush(1)
  \/ record_close(1)
  \/ \E i \in 1..Len(workers) : process_audio(i)
  \/ \E i \in 1..Len(workers) : get_ai_response(i)
  \/ \E i \in 1..Len(workers) : text_to_speech(i)

SpecWorkers == Init /\ [][WorkersNext]_vars

\* One capture session whose device reads all succeed, with the workers up to
\* the playback of their replies.
PlaybackNext ==
  \/ start_recording(1)
  \/ stop_recording
  \/ record_open(1)
  \/ record_loop(1)
  \/ record_read(1, PlaybackReads)
  \/ record_flush(1)
  \/ record_close(1)
  \/ \E i \in 1..Len(workers) : process_audio(i)
  \/ \E i \in 1..Len(workers) : get_ai_response(i)
  \/ \E i \in 1..Len(workers) : text_to_speech(i)
  \/ \E i \in 1..Len(workers) : play_audio_load(i)
  \/ \E i \in 1..Len(workers) : play_audio_play(i)
  \/ music_ends

SpecPlayback == Init /\ [][PlaybackNext]_vars

\* One capture session with the whole chain of every worker: transcription,
\* reply, speech synthesis, playback and the deletion of the temporary file.
CleanupNext ==
  \/ start_recording(1)
  \/ stop_recording
  \/ record_open(1)
  \/ record_loop(1)
  \/ record_read(1, CleanupReads)
  \/ record_read_error(1)
  \/ record_flush(1)
  \/ record_close(1)
  \/ \E i \in 1..Len(workers) : process_audio(i)
  \/ \E i \in 1..Len(workers) : get_ai_response(i)
  \/ \E i \in 1..Len(workers) : text_to_speech(i)
  \/ \E i \in 1..Len(workers) : play_audio_load(i)
  \/ \E i \in 1..Len(workers) : play_audio_play(i)
  \/ \E i \in 1..Len(workers) : cleanup(i)
  \/ music_ends

SpecCleanup == Init /\ [][CleanupNext]_vars

\* The classifier alone, called on one window after another.
ClassifierNext == classify_window

SpecClassifier == Init /\ [][ClassifierNext]_vars

\* The event bus alone: one publisher, and threads that subscribe and
\* unsubscribe at any moment.
BusNext ==
  \/ subscribe
  \/ unsubscribe
  \/ bus_publish
  \/ bus_snapshot
  \/ bus_call
  \/ bus_return

SpecBus == Init /\ [][BusNext]_vars

\* The device selection alone, once, on any host.
DeviceNext == select_input_device

SpecDevice == Init /\ [][DeviceNext]_vars

\* ------------------------------------------- verdict-history helpers
\* Number of speech verdicts in h.
NumSpeech(h) == Cardinality({i \in 1..Len(h) : h[i]})
\* Number of maximal runs of speech verdicts (bursts) in h.
Bursts(h) == Cardinality({i \in 1..Len(h) : h[i] /\ (i = 1 \/ ~h[i - 1])})
\* Length of the run of silence verdicts that ends h.
TrailingSilence(h) ==
  IF NumSpeech(h) = 0 THEN Len(h)
  ELSE Len(h) - (CHOOSE i \in 1..Len(h) : h[i] /\ \A j \in (i + 1)..Len(h) : ~h[j])
\* Lengths of the runs of silence verdicts between two speech verdicts.
InnerGaps(h) ==
  {j - i - 1 : <<i, j>> \in {p \in (1..Len(h)) \X (1..Len(h)) :
      /\ p[1] + 1 < p[2] /\ h[p[1]] /\ h[p[2]]
      /\ \A k \in (p[1] + 1)..(p[2] - 1) : ~h[k]}}
\* The utterances capture thread t dispatched, as indices of workers.
UtterancesBy(t, how) ==
  {i \in 1..Len(workers) : workers[i].by = t /\ workers[i].via = how}
\* Every verdict of capture thread t so far: those of the buffers the gate
\* emitted, in order, then those of the current buffer.
RECURSIVE GateHist(_, _)
GateHist(t, n) ==
  IF n = 0 THEN <<>>
  ELSE GateHist(t, n - 1) \o
       (IF workers[n].by = t /\ workers[n].via = "gate" THEN workers[n].hist ELSE <<>>)
FullHist(t) == GateHist(t, Len(workers)) \o hist[t]
\* Whether an audio_error of capture thread t is in the event history.
CaptureErrorPublished(t) ==
  \E k \in 1..Len(event_history) :
    event_history[k] = [type |-> "audio_error", data |-> <<"capture", t>>]
\* Whether worker i has published an event of this type, and where.
PublishedAt(type, i) ==
  {k \in 1..Len(event_history) :
     event_history[k] = [type |-> type, data |-> <<"worker", i>>]}
NumPublished(type) ==
  Cardinality({k \in 1..Len(event_history) : event_history[k].type = type})

\* One burst of at most k windows of speech, shorter than MinSpeechMs.
ShortBurst(h) == Bursts(h) = 1 /\ NumSpeech(h) * WindowMs < MinSpeechMs
\* One burst of at least MinSpeechMs, then silence of at least SilenceThresholdMs.
LongBurstThenSilence(h) ==
  /\ Bursts(h) = 1
  /\ NumSpeech(h) * WindowMs >= MinSpeechMs
  /\ TrailingSilence(h) * WindowMs >= SilenceThresholdMs
\* Two bursts, the gap between them below SilenceThresholdMs.
TwoBurstsShortGap(h) ==
  /\ Bursts(h) = 2
  /\ \A g \in InnerGaps(h) : g * WindowMs < SilenceThresholdMs
\* No silence after the first speech verdict has lasted SilenceThresholdMs.
NoLongSilence(h) ==
  /\ \A g \in InnerGaps(h) : g * WindowMs < SilenceThresholdMs
  /\ NumSpeech(h) > 0 => TrailingSilence(h) * WindowMs < SilenceThresholdMs

\* --------------------------------------------------------------- claims

\* C1: a speech burst shorter than min_speech_duration (all its speech
\* verdicts together cover less than MinSpeechMs of audio) followed only by
\* silence never makes the capture loop dispatch an utterance, however much
\* silence preceded the burst.
C1_MinSpeechGate ==
  \A i \in 1..Len(workers) :
    workers[i].via = "gate" => ~ShortBurst(workers[i].hist)

\* C2: a capture thread whose every classifier verdict was silence never
\* leaves IDLE and has dispatched no utterance, neither while reading nor by
\* the flush after stop_recording.
C2_SilenceOnly ==
  \A t \in Threads :
    ~heard[t] =>
      /\ ~speech_started[t]
      /\ \A i \in 1..Len(workers) : workers[i].by # t
C2_Witness ==
  /\ pc[1] = "done" /\ ended[1] = "stopped"
  /\ nread[1] >= 2 * ClassifyEvery
  /\ ~heard[1] /\ workers = <<>>

\* C3: when the verdicts of a capture thread are one burst of at least
\* min_speech_duration followed by silence of at least silence_threshold
\* (and any further silence), the thread has dispatched exactly one utterance
\* from its loop, is IDLE again, and its buffer holds only frames read after
\* the emission; continued silence dispatches nothing more.
C3_ExactlyOne ==
  \A t \in Threads :
    /\ LongBurstThenSilence(FullHist(t)) =>
         /\ Cardinality(UtterancesBy(t, "gate")) = 1
         /\ ~speech_started[t]
         /\ NumSpeech(hist[t]) = 0
         /\ Len(frames[t]) < (Len(hist[t]) + 1) * ClassifyEvery
    \* likewise for a later buffer: the burst is emitted as soon as the
    \* silence has lasted, and every emitted buffer has speech of its own
    /\ ~LongBurstThenSilence(hist[t])
    /\ \A i \in UtterancesBy(t, "gate") : NumSpeech(workers[i].hist) >= 1
C3_Witness ==
  /\ LongBurstThenSilence(FullHist(1))
  /\ Cardinality(UtterancesBy(1, "gate")) = 1
  /\ Len(hist[1]) >= 1
  /\ pc[1] = "loop" /\ recording

\* C4: the frames of a dispatched utterance start no earlier than the window
\* whose speech verdict made the segmenter enter SPEAKING: frames read while
\* IDLE before it are not part of the utterance.
C4_FramesFromOnset ==
  \A i \in 1..Len(workers) :
    \A k \in 1..Len(workers[i].frames) :
      workers[i].frames[k] >= workers[i].onset

\* C5: silence gaps shorter than silence_threshold do not split: while no
\* silence after the first speech verdict has lasted silence_threshold the
\* loop has dispatched nothing, and two bursts with a shorter gap followed by
\* silence of silence_threshold give exactly one utterance, whose frames are
\* all the frames of the windows of both bursts and of the gap, in read order.
C5_Merged ==
  \A t \in Threads :
    /\ NoLongSilence(FullHist(t)) => UtterancesBy(t, "gate") = {}
    /\ ( /\ TwoBurstsShortGap(FullHist(t))
         /\ TrailingSilence(FullHist(t)) * WindowMs >= SilenceThresholdMs ) =>
         /\ Cardinality(UtterancesBy(t, "gate")) = 1
         /\ \A i \in UtterancesBy(t, "gate") :
              /\ Bursts(workers[i].hist) = 2
              /\ Len(workers[i].frames) = Len(workers[i].hist) * ClassifyEvery
              /\ \A k \in 1..Len(workers[i].frames) :
                   workers[i].frames[k] = workers[i].frames[1] + k - 1
              /\ workers[i].frames[1] <= workers[i].onset
C5_Witness ==
  /\ TwoBurstsShortGap(FullHist(1))
  /\ TrailingSilence(FullHist(1)) * WindowMs >= SilenceThresholdMs
  /\ \E i \in UtterancesBy(1, "gate") : InnerGaps(workers[i].hist) # {}

C7_ExclusiveCapture ==
  Cardinality({t \in Threads : stream[t] = "open" /\ pc[t] \in {"loop", "read"}}) <= 1

\* C8: a capture thread in its loop never waits for a worker: whatever the
\* workers do, its loop test and its next frame read can be taken.
C8_CaptureNotBlocked ==
  \A t \in Threads :
    /\ pc[t] \in {"loop", "read"} => ~AwaitsWorker(t)
    /\ pc[t] = "loop" => ENABLED record_loop(t)
    /\ (pc[t] = "read" /\ TotalReads < SessionReads) =>
         ENABLED record_read(t, SessionReads)
C8_Witness ==
  \E i \in UtterancesBy(1, "gate") :
    /\ workers[i].stage = "transcribe"
    /\ pc[1] = "read"
    /\ nread[1] > workers[i].frames[Len(workers[i].frames)] + 1

\* C9: a capture thread that ended because a device read failed has published
\* AUDIO_ERROR.
C9_DeviceErrorNotified ==
  \A t \in Threads :
    (pc[t] = "done" /\ ended[t] = "read_error") => CaptureErrorPublished(t)

\* C10: start_recording called while capture is active (a start succeeded and
\* no stop since) reports failure and changes nothing: no capture thread is
\* spawned, the recording flag keeps its value and AUDIO_STARTED is not
\* published again.
C10_StartWhileActive ==
  [][(active /\ start_recording(MaxThreads)) =>
       /\ lastCall' = [op |-> "start", ok |-> FALSE]
       /\ recording' = recording
       /\ nthreads' = nthreads
       /\ pc' = pc
       /\ event_history' = event_history]_vars
C10_Witness ==
  /\ active /\ lastCall = [op |-> "start", ok |-> FALSE]
  /\ nthreads = 1 /\ NumPublished("audio_started") = 1

\* C11: stop_recording called while capture is not active (never started, or
\* stopped since the last successful start) reports failure and changes
\* nothing: the recording flag was false and stays false, and AUDIO_STOPPED is
\* not published.
C11_StopWhileInactive ==
  [][(~active /\ stop_recording) =>
       /\ lastCall' = [op |-> "stop", ok |-> FALSE]
       /\ ~recording /\ ~recording'
       /\ event_history' = event_history
       /\ pc' = pc /\ workers' = workers]_vars
\* A second stop after a successful one.
C11_Witness ==
  /\ ~active /\ lastCall = [op |-> "stop", ok |-> FALSE]
  /\ nthreads >= 1 /\ NumPublished("audio_stopped") = 1

\* C12: when stop_recording succeeds (it returns True and AUDIO_STOPPED is
\* published), every capture thread started so far has left its loop, has
\* done its flush and has finished, and no input stream is open.
C12_StopAfterShutdown ==
  [][(recording /\ stop_recording) =>
       \A t \in 1..nthreads :
         /\ pc'[t] = "done"
         /\ stream'[t] # "open"]_vars

\* C13: a failure of the transcription, of the reply or of the speech
\* synthesis ends its worker with AUDIO_ERROR, AI_ERROR or TTS_ERROR
\* published for it; no step of a worker changes the recording flag or
\* anything of a capture thread; and whatever the workers did, a capture
\* thread in its loop can take its loop test and its next read.
C13_WorkerFailuresContained ==
  /\ [](\A i \in 1..Len(workers) :
         /\ workers[i].failed # "no" => workers[i].stage = "done"
         /\ workers[i].failed = "transcribe" => PublishedAt("audio_error", i) # {}
         /\ workers[i].failed = "respond" => PublishedAt("ai_error", i) # {}
         /\ workers[i].failed = "tts" => PublishedAt("tts_error", i) # {})
  /\ [][(\E i \in 1..Len(workers) :
           process_audio(i) \/ get_ai_response(i) \/ text_to_speech(i)) =>
          /\ recording' = recording
          /\ UNCHANGED captureVars]_vars
  /\ [](\A t \in Threads :
         /\ pc[t] = "loop" => ENABLED record_loop(t)
         /\ (pc[t] = "read" /\ TotalReads < WorkerReads) =>
              ENABLED record_read(t, WorkerReads))
\* The first utterance failed in its worker; the capture thread went on
\* reading, was stopped later and flushed a second utterance.
C13_Witness ==
  /\ Len(workers) = 2
  /\ workers[1].by = 1 /\ workers[1].failed = "respond"
  /\ workers[2].by = 1 /\ workers[2].via = "flush" /\ ended[1] = "stopped"
  /\ \E k \in PublishedAt("ai_error", 1) :
       \E m \in (k + 1)..Len(event_history) :
         event_history[m].type = "audio_stopped"

\* C14: the workers of one capture thread are started in the order in which
\* their speech was captured: every frame of an utterance dispatched earlier
\* was read before every frame of one dispatched later, and a dispatch only
\* appends to the workers started so far.  (The workers may finish in any
\* order.)
C14_DispatchOrder ==
  /\ [](\A i, j \in 1..Len(workers) :
         (i < j /\ workers[i].by = workers[j].by) =>
           /\ workers[i].frames # <<>> /\ workers[j].frames # <<>>
           /\ workers[i].frames[Len(workers[i].frames)] < workers[j].frames[1])
  /\ [][/\ Len(workers') >= Len(workers)
        /\ \A i \in 1..Len(workers) :
             /\ workers'[i].frames = workers[i].frames
             /\ workers'[i].by = workers[i].by]_vars
\* The second utterance's worker has finished, the first one's has not.
C14_Witness ==
  /\ Len(workers) = 2
  /\ workers[1].by = 1 /\ workers[2].by = 1
  /\ workers[1].stage = "transcribe"
  /\ workers[2].stage = "done"
  /\ PublishedAt("ai_response", 2) # {}

\* C15: at most one synthesized file is playing at any time, and it is the
\* one the mixer loaded last; a load that succeeds while another file is
\* loaded or playing replaces it: in the state after the load no other file
\* is playing, and whatever is played from then on is the newly loaded file.
C15_SinglePlayback ==
  /\ [](/\ Cardinality({i \in 1..Len(workers) : workers[i].audio = "playing"}) <= 1
        /\ \A i \in 1..Len(workers) :
             workers[i].audio \in {"loaded", "playing"} => music.loaded = i
        /\ music.playing <=>
             (music.loaded # 0 /\ workers[music.loaded].audio = "playing"))
  /\ [][\A i \in 1..Len(workers) :
          (play_audio_load(i) /\ music'.loaded = i /\ music.loaded # i) =>
            \A j \in 1..Len(workers) : workers'[j].audio # "playing"]_vars
\* The second file is playing after its load stopped the first one, which
\* was still playing.
C15_Witness ==
  /\ Len(workers) = 2
  /\ workers[1].audio = "stopped" /\ workers[1].failed = "no"
  /\ workers[1].cleanup # "none"
  /\ workers[2].audio = "playing" /\ music = [loaded |-> 2, playing |-> TRUE]

\* C16: every worker that wrote a temporary file and has returned from
\* _play_audio has a cleanup thread for that file, also when load or play
\* raised.
C16_CleanupScheduled ==
  \A i \in 1..Len(workers) :
    (workers[i].tmp # "none" /\ workers[i].stage = "done") =>
      workers[i].cleanup # "none"

\* C17: a classified window whose samples all have a magnitude above the
\* loud cutoff (so that the true RMS is above it) has the verdict speech.
C17_LoudIsSpeech ==
  (window # <<>> /\ \A k \in 1..Len(window) :
                      window[k] > loud_rms \/ window[k] < -loud_rms) =>
    verdict

\* C18: for a classified window that none of the three later tiers accepts,
\* the verdict is speech exactly when its RMS is above the configured
\* rms_threshold and its zero-crossing rate above the configured
\* zcr_threshold.
C18_ConfiguredThresholds ==
  (window # <<>> /\ ~OtherTierAccepts(window)) =>
    (verdict <=> ( /\ RmsAbove(window, config_rms_threshold)
                   /\ ZcrAbove(window, config_zcr_threshold) ))

\* C19: a capture thread that was running when stop_recording succeeded
\* leaves its loop at its next loop test, also when start_recording has been
\* called again since.  (A later capture thread exists only after such a
\* stop, so thread t was stopped if t < nthreads.)
C19_StoppedThreadLeaves ==
  [][\A t \in Threads :
       (t < nthreads /\ record_loop(t)) => pc'[t] = "flush"]_vars

\* C20: when the verdicts of the buffered frames are one burst shorter than
\* min_speech_duration followed by silence of at least silence_threshold, the
\* burst has been discarded: the segmenter is IDLE and the buffer holds none
\* of those frames (so that no later emission or flush can carry them).
C20_ShortBurstDiscarded ==
  \A t \in Threads :
    ( /\ ShortBurst(hist[t])
      /\ TrailingSilence(hist[t]) * WindowMs >= SilenceThresholdMs ) =>
      /\ ~speech_started[t]
      /\ frames[t] = <<>>

\* C21: while the segmenter of a capture thread is IDLE, its buffer holds at
\* most one classification window (ClassifyEvery frames), however long the
\* silence has lasted.
C21_IdleBufferBounded ==
  \A t \in Threads :
    (pc[t] \in {"loop", "read"} /\ ~speech_started[t]) =>
      Len(frames[t]) <= ClassifyEvery

\* C22: a capture thread that has opened its stream and has ended has closed
\* it: no path ends the thread with the stream still open.
C22_StreamClosedOnExit ==
  \A t \in Threads : pc[t] = "done" => stream[t] # "open"

\* The OR of the four tiers, with the thresholds _has_speech_content names
\* rms_threshold and zcr_threshold and its three cutoffs.
FourTiers(w) ==
  \/ RmsAbove(w, rms_threshold) /\ ZcrAbove(w, zcr_threshold)
  \/ RmsAbove(w, loud_rms)
  \/ RmsAbove(w, medium_rms) /\ ZcrAbove(w, medium_zcr)
  \/ RmsAbove(w, low_rms) /\ ZcrAbove(w, low_zcr)

\* C23: after any sequence of classifier calls, the verdict of the last call
\* is the OR of the four tiers on the window of that call: it depends on
\* that window only, not on the calls before.
C23_VerdictIsOrOfTiers ==
  window # <<>> => (verdict <=> FourTiers(window))
\* A window that only the first tier accepts.
C23_Witness ==
  /\ window # <<>> /\ verdict
  /\ ~OtherTierAccepts(window)
  /\ zero_crossings(window) >= 1

\* C24: when the classifier has been called on the empty window (the mean
\* and the zero-crossing rate are then divisions by zero), its verdict is
\* speech.
C24_FailsOpen ==
  (called /\ window = <<>>) => verdict

\* C25: after the device selection and the open on a host: the default input
\* device was chosen when the query for it succeeded; otherwise the first
\* device in enumeration order with an input channel; and when the host has
\* no device with an input channel, no stream was opened and AUDIO_ERROR was
\* published.
C25_DeviceSelection ==
  host # NoHost =>
    /\ host.default # 0 => input_device = host.default
    /\ (host.default = 0 /\ InputDevices(host) # {}) =>
         /\ input_device \in InputDevices(host)
         /\ \A j \in InputDevices(host) : input_device <= j
    /\ InputDevices(host) = {} =>
         /\ ~opened
         /\ NumPublished("audio_error") = 1
\* The default query failed and the second device is the first with input.
C25_Witness ==
  /\ host.default = 0 /\ Len(host.channels) = 3
  /\ host.channels[1] = 0 /\ host.channels[2] > 0 /\ host.channels[3] > 0
  /\ input_device = 2 /\ opened

\* C26: for a worker whose playback failed (the load or the start raised), a
\* playback-error notification about it is on the event bus and no
\* TTS_COMPLETED was published for it.
C26_PlaybackFailureSurfaced ==
  \A i \in 1..Len(workers) :
    workers[i].failed \in {"load", "play"} =>
      /\ \E k \in 1..Len(event_history) :
           /\ event_history[k].type \in {"playback_error", "tts_error", "audio_error"}
           /\ event_history[k].data = <<"worker", i>>
      /\ PublishedAt("tts_completed", i) = {}

\* C27: the list a worker was given holds exactly the frames it held at the
\* hand-off, and while the capture thread that gave it can still read a
\* frame, that thread's buffer is another list: a frame read after the
\* hand-off is in the thread's buffer and in no list given before.
C27_NoMutationAfterHandOff ==
  \A i \in 1..Len(workers) :
    /\ workers[i].frames = workers[i].handed
    /\ pc[workers[i].by] \in {"loop", "read"} =>
         /\ ~workers[i].alias
         /\ \A k \in 1..Len(frames[workers[i].by]) :
              \A m \in 1..Len(workers[i].frames) :
                frames[workers[i].by][k] > workers[i].frames[m]
\* After an emission the thread has read further frames into its new buffer.
C27_Witness ==
  \E i \in 1..Len(workers) :
    /\ workers[i].via = "gate"
    /\ pc[workers[i].by] = "read"
    /\ Len(frames[workers[i].by]) >= 2
    /\ workers[i].frames = workers[i].handed

\* C28: a publish call stores its event and returns whatever the subscribers
\* are: it takes the callbacks subscribed to the event's type at that moment,
\* calls them one by one in subscription order, goes on after a callback that
\* raised, and no exception leaves it; with no subscriber it returns without
\* a call.
C28_DeliveryToSubscribers ==
  /\ [](/\ ~delivery.propagated
        /\ delivery.stage # "aborted"
        /\ delivery.ncalled <= Len(delivery.callbacks)
        /\ delivery.stage = "done" =>
             delivery.ncalled = Len(delivery.callbacks)
        /\ (delivery.stage = "calling" /\ delivery.ncalled < Len(delivery.callbacks)) =>
             ENABLED bus_call
        /\ (delivery.stage = "calling" /\ delivery.ncalled = Len(delivery.callbacks)) =>
             ENABLED bus_return)
  /\ [][/\ bus_snapshot => delivery'.callbacks = subscribers[delivery.type]
        /\ bus_call => /\ delivery'.ncalled = delivery.ncalled + 1
                       /\ delivery'.callbacks = delivery.callbacks
        /\ bus_publish => Len(event_history') = Len(event_history) + 1]_vars
\* A publish has returned after two callbacks, the first of which raised,
\* while the subscriptions changed during the delivery.
C28_Witness ==
  /\ delivery.stage = "done"
  /\ Len(delivery.callbacks) = 2 /\ delivery.ncalled = 2
  /\ delivery.raisedAt = 1
  /\ subscribers[delivery.type] # delivery.callbacks

\* C29: whenever every capture thread started so far has ended (the open
\* failed, a read failed, or the thread was stopped), the recording flag is
\* false: the next start_recording is accepted and a stop_recording is
\* rejected.
C29_FlagTellsTruth ==
  (nthreads >= 1 /\ \A t \in 1..nthreads : pc[t] = "done") => ~recording

FrameSet(fr) == {fr[k] : k \in 1..Len(fr)}
\* C30: within one capture thread the frames of an utterance are in read
\* order, no frame is in two utterances (or in an utterance and in the
\* buffer), every frame read from the speech onset up to the dispatch is in
\* the utterance dispatched, and while speech is buffered every frame read
\* since its onset is in the buffer.
C30_NoFrameDuplicatedOrLost ==
  /\ \A i \in 1..Len(workers) :
       LET w == workers[i] IN
       /\ \A a \in 1..(Len(w.frames) - 1) : w.frames[a] < w.frames[a + 1]
       /\ \A j \in 1..Len(workers) :
            (j # i /\ workers[j].by = w.by) =>
              FrameSet(w.frames) \cap FrameSet(workers[j].frames) = {}
       /\ pc[w.by] \in {"loop", "read"} =>
            FrameSet(w.frames) \cap FrameSet(frames[w.by]) = {}
       /\ w.onset > 0 => (w.onset..w.at) \subseteq FrameSet(w.frames)
  /\ \A t \in Threads :
       speech_started[t] => (onset[t]..nread[t]) \subseteq FrameSet(frames[t])
\* Two utterances of one thread have been dispatched, the first by an
\* emission, and the speech of the second begins some frames into its buffer.
C30_Witness ==
  /\ Len(workers) = 2
  /\ workers[1].by = workers[2].by
  /\ workers[1].via = "gate"
  /\ workers[2].onset > workers[1].at + 1
  /\ workers[2].at > workers[2].onset

====
